---- MODULE Spec2Model ----
(***************************************************************************)
(* Model of comparative_benchmark/xla_compiler/run_benchmarks.py: the      *)
(* parsers that turn the log of the external HLO benchmarking tool into a  *)
(* metrics record, and main()'s loop over the selected benchmarks.         *)
(*                                                                         *)
(* Number representation (TLC has 32-bit integers and no floats):          *)
(*   - a value in milliseconds that comes from log timestamps (a latency)  *)
(*     is an integer number of milliseconds; timestamps carry three        *)
(*     fractional digits of seconds;                                       *)
(*   - a "time: <n> <unit>" duration in milliseconds is an integer number  *)
(*     of thousandths of a millisecond (Milli per ms);                     *)
(*   - a value in seconds or in megabytes is an integer number of          *)
(*     millionths (Micro per unit);                                        *)
(*   - divisions round down where Python's floats would round to nearest.  *)
(* An optional value (Python's None) is a sequence: <<>> is None and <<x>> *)
(* is the value x.                                                         *)
(***************************************************************************)
EXTENDS Integers, Sequences, FiniteSets, TLC

VARIABLES
  benchmarks,    \* main: the selected benchmarks, each its accelerator_type
  iterations,    \* the --iterations argument (benchmark_iterations)
  pc,            \* main: "start", "loop", "done" or "raised"
  idx,           \* main: index of the benchmark the loop is at
  store,         \* the result store: result records in the order appended
  launched,      \* main: the benchmarks the tool was launched for
  stdout,        \* main: the messages print()ed so far
  error,         \* main: the exception that ended it, "none" if none
  latencies,     \* main: None, or <<l>> when the last launched run parsed
                 \* the latency list l
  seen,          \* main: how many lines of each kind the last launched
                 \* run's log held
  result_text,   \* a device parser called alone: the log it was given
  results_dict,  \* a device parser called alone: None or <<what it returned>>
  line1,         \* _parse_log_elapsed_time: first argument
  line2,         \* _parse_log_elapsed_time: second argument
  elapsed        \* _parse_log_elapsed_time: None or <<what it returned>>

vars == <<benchmarks, iterations, pc, idx, store, launched, stdout, error,
          latencies, seen, result_text, results_dict, line1, line2, elapsed>>

(***************************************************************************)
(* Bounds of the model.                                                    *)
(***************************************************************************)
MaxIterations == 2     \* --iterations ranges over 0..MaxIterations
MaxBatch == 2          \* benchmarks selected by one call of main
MaxBatchLogLen == 3    \* lines of one tool output when main runs a batch
MaxLogLen == 5         \* lines of the log given to a device parser alone

(***************************************************************************)
(* Units and helpers.                                                      *)
(***************************************************************************)
Milli == 1000
Micro == 1000000
DayMs == 24 * 3600 * 1000   \* milliseconds in one day

None == <<>>
Some(x) == <<x>>

Ok(v) == [ok |-> TRUE, val |-> v, err |-> "none"]
Raise(e) == [ok |-> FALSE, val |-> <<>>, err |-> e]

Range(s) == {s[i] : i \in 1..Len(s)}

RECURSIVE SeqSum(_)
SeqSum(s) == IF s = <<>> THEN 0 ELSE Head(s) + SeqSum(Tail(s))

SeqsUpTo(S, n) == UNION {[1..k -> S] : k \in 0..n}

Abs(x) == IF x < 0 THEN -x ELSE x

(***************************************************************************)
(* A log line.  kind names the pattern the line matches; ts is the         *)
(* timestamp prefix (None when the line lacks the prefix); num and tag     *)
(* hold the number the pattern captures and what follows it.               *)
(***************************************************************************)
Line(kind, ts, num, tag) == [kind |-> kind, ts |-> ts, num |-> num, tag |-> tag]

Timestamp(h, m, ms) == [h |-> h, m |-> m, ms |-> ms]

\* Line 30, in thousandths of a millisecond.  The entry "h" is left out: its
\* factor in this unit is beyond the 32-bit integers of the model checker,
\* and no log line of the model uses it.
TIME_UNITS == [u \in {"us", "ms", "s", "min"} |->
                 CASE u = "us" -> 1
                   [] u = "ms" -> Milli
                   [] u = "s" -> 1000 * Milli
                   [] u = "min" -> 60 * 1000 * Milli]

findall(raw_output, kind) == SelectSeq(raw_output, LAMBDA l : l.kind = kind)

\* Results of a comprehension whose elements may raise: the first exception,
\* or the values.
AllOk(rs) == \A i \in 1..Len(rs) : rs[i].ok
FirstError(rs) == rs[CHOOSE i \in 1..Len(rs) : ~rs[i].ok /\ \A j \in 1..(i - 1) : rs[j].ok]
Vals(rs) == [i \in 1..Len(rs) |-> rs[i].val]

_parse_log_time(line) ==
  IF line.ts = None
  THEN Raise("AssertionError: Unable to parse log time")
  ELSE Ok(1000 * (line.ts[1].h * 3600 + line.ts[1].m * 60) + line.ts[1].ms)

\* "end += 86400 if end < start else 0  # next day correction"
next_day_correction(start, end) == IF end < start THEN 86400 ELSE 0

_parse_log_elapsed_time(l1, l2) ==
  IF ~_parse_log_time(l1).ok THEN _parse_log_time(l1)
  ELSE IF ~_parse_log_time(l2).ok THEN _parse_log_time(l2)
  ELSE Ok((_parse_log_time(l2).val
           + next_day_correction(_parse_log_time(l1).val,
                                 _parse_log_time(l2).val))
          - _parse_log_time(l1).val)

(***************************************************************************)
(* _parse_latencies also print()s; out holds what it printed.              *)
(***************************************************************************)
Returned(v, out) == [ok |-> TRUE, val |-> v, err |-> "none", out |-> out]

UnequalMsg == "Error: Unequal number of start and stop logs."
IterationsMsg ==
  "Error: Number of iterations not equal to the number of expected iteration."

\* [_parse_log_elapsed_time(t1, t2) for t1, t2 in zip(...)]
zip_elapsed(start_matches, stop_matches) ==
  [i \in 1..(IF Len(start_matches) <= Len(stop_matches)
             THEN Len(start_matches) ELSE Len(stop_matches)) |->
     _parse_log_elapsed_time(start_matches[i], stop_matches[i])]

\* a faulty variant of latencies_of that pairs what it can instead of giving up
latencies_of_truncated(start_matches, stop_matches, expected_iterations) ==
  IF ~AllOk(zip_elapsed(start_matches, stop_matches))
  THEN [ok |-> FALSE, val |-> <<>>, out |-> <<>>,
        err |-> FirstError(zip_elapsed(start_matches, stop_matches)).err]
  ELSE Returned(Vals(zip_elapsed(start_matches, stop_matches)),
                IF Len(start_matches) # Len(stop_matches) THEN <<UnequalMsg>>
                ELSE IF Len(start_matches) # expected_iterations
                THEN <<IterationsMsg>> ELSE <<>>)

\* _parse_latencies, given what the two patterns matched
latencies_of(start_matches, stop_matches, expected_iterations) ==
  IF Len(start_matches) # Len(stop_matches)
  THEN Returned(<<>>, <<UnequalMsg>>)
  ELSE IF Len(start_matches) # expected_iterations
  THEN Returned(<<>>, <<IterationsMsg>>)
  ELSE IF ~AllOk(zip_elapsed(start_matches, stop_matches))
  THEN [ok |-> FALSE, val |-> <<>>, out |-> <<>>,
        err |-> FirstError(zip_elapsed(start_matches, stop_matches)).err]
  ELSE Returned(Vals(zip_elapsed(start_matches, stop_matches)), <<>>)

_parse_latencies(raw_output, expected_iterations) ==
  latencies_of(findall(raw_output, "started"),
               findall(raw_output, "succeeded"), expected_iterations)

_parse_log_duration(line) ==
  IF line.tag \notin DOMAIN TIME_UNITS
  THEN Raise("AssertionError: Unable to parse the time on log line")
  ELSE Ok(line.num * TIME_UNITS[line.tag])

\* float(bytes) * 1e-6, in millionths of a megabyte
_parse_log_size(line) ==
  IF line.tag # "bytes"
  THEN Raise("AssertionError: Unable to parse the size on log line")
  ELSE Ok((line.num * Micro) \div 1000000)

durations(matches) ==
  [i \in 1..Len(matches) |-> _parse_log_duration(matches[i])]

\* sum of the durations (thousandths of a ms) * 1e-3, in millionths of a s
_parse_compile_time(raw_output) ==
  IF ~AllOk(durations(findall(raw_output, "compile")))
  THEN FirstError(durations(findall(raw_output, "compile")))
  ELSE Ok((SeqSum(Vals(durations(findall(raw_output, "compile")))) * 1000)
          \div 1000)

\* a faulty variant of last_match that takes the first announcement
first_announcement(matches) == matches[1]

\* matches[-1]
last_match(matches) == matches[Len(matches)]

_parse_peak_memory(raw_output) ==
  IF findall(raw_output, "peak") = <<>>
  THEN Raise("AssertionError: Unable to find peak memory")
  ELSE _parse_log_size(last_match(findall(raw_output, "peak")))

(***************************************************************************)
(* min, max and the statistics module.                                     *)
(***************************************************************************)
\* a faulty variant of MinOrNone whose default is zero
MinOrZero(l) ==
  IF l = <<>> THEN Some(0)
  ELSE Some(CHOOSE x \in Range(l) : \A y \in Range(l) : x <= y)

\* min(latencies, default=None)
MinOrNone(l) ==
  IF l = <<>> THEN None
  ELSE Some(CHOOSE x \in Range(l) : \A y \in Range(l) : x <= y)

\* max(latencies, default=None)
MaxOrNone(l) ==
  IF l = <<>> THEN None
  ELSE Some(CHOOSE x \in Range(l) : \A y \in Range(l) : x >= y)

RECURSIVE Insert(_, _)
Insert(x, s) ==
  IF s = <<>> THEN <<x>>
  ELSE IF x <= Head(s) THEN <<x>> \o s
  ELSE <<Head(s)>> \o Insert(x, Tail(s))

RECURSIVE sorted(_)
sorted(l) == IF l = <<>> THEN <<>> ELSE Insert(Head(l), sorted(Tail(l)))

mean(l) == SeqSum(l) \div Len(l)

MiddleOf(s) ==
  IF Len(s) % 2 = 1 THEN s[(Len(s) + 1) \div 2]
  ELSE (s[Len(s) \div 2] + s[Len(s) \div 2 + 1]) \div 2

median(l) == MiddleOf(sorted(l))

RECURSIVE Isqrt(_, _, _)
Isqrt(n, lo, hi) ==
  IF lo >= hi THEN lo
  ELSE IF ((lo + hi + 1) \div 2) * ((lo + hi + 1) \div 2) <= n
  THEN Isqrt(n, (lo + hi + 1) \div 2, hi)
  ELSE Isqrt(n, lo, (lo + hi + 1) \div 2 - 1)

\* The deviations are cut to MantissaMax (a float's bounded mantissa) so
\* that their squares fit.
MantissaMax == 10 * 1000

RECURSIVE ScaleOf(_, _)
ScaleOf(x, k) == IF x \div k <= MantissaMax THEN k ELSE ScaleOf(x, 10 * k)

Deviations(l) == [i \in 1..Len(l) |-> Abs(l[i] - mean(l))]

ScaledStdev(d, k) ==
  k * Isqrt(SeqSum([i \in 1..Len(d) |-> (d[i] \div k) * (d[i] \div k)])
              \div (Len(d) - 1), 0, 3 * MantissaMax)

stdev(l) ==
  IF Len(l) < 2
  THEN Raise("StatisticsError: stdev requires at least two data points")
  ELSE Ok(ScaledStdev(Deviations(l), ScaleOf(MaxOrNone(Deviations(l))[1], 1)))

\* "statistics.stdev(latencies) if latencies else None"
stdev_if_any(l) == IF l # <<>> THEN stdev(l) ELSE Ok(None)

(***************************************************************************)
(* The two device parsers.  Each returns the metrics record (val), or the  *)
(* exception raised (err); out is what was printed and lat the latency     *)
(* list, None when the run raised before it had the list.                  *)
(***************************************************************************)
Failed(e, out, lat) ==
  [ok |-> FALSE, val |-> <<>>, err |-> e, out |-> out, lat |-> lat]

\* lines 149-163, given what the three parsers returned
gpu_results_dict(parsed, compile_time_s, peak_memory_usage, benchmark_iterations) ==
  IF ~parsed.ok THEN Failed(parsed.err, parsed.out, None)
  ELSE IF ~compile_time_s.ok
  THEN Failed(compile_time_s.err, parsed.out, Some(parsed.val))
  ELSE IF ~peak_memory_usage.ok
  THEN Failed(peak_memory_usage.err, parsed.out, Some(parsed.val))
  ELSE IF ~stdev_if_any(parsed.val).ok
  THEN Failed(stdev_if_any(parsed.val).err, parsed.out, Some(parsed.val))
  ELSE [ok |-> TRUE, err |-> "none", out |-> parsed.out,
        lat |-> Some(parsed.val),
        val |-> [compile_time_s |-> Some(compile_time_s.val),
                 min_latency_ms |-> MinOrNone(parsed.val),
                 max_latency_ms |-> MaxOrNone(parsed.val),
                 mean_latency_ms |->
                   IF parsed.val # <<>> THEN Some(mean(parsed.val)) ELSE None,
                 median_latency_ms |->
                   IF parsed.val # <<>> THEN Some(median(parsed.val)) ELSE None,
                 stddev_latency_ms |->
                   IF parsed.val # <<>> THEN Some(stdev_if_any(parsed.val).val)
                   ELSE None,
                 benchmark_iterations |-> benchmark_iterations,
                 device_memory_peak_mb |-> Some(peak_memory_usage.val)]]

_run_compiler_benchmark_gpu(raw_output, benchmark_iterations) ==
  gpu_results_dict(_parse_latencies(raw_output, benchmark_iterations),
                   _parse_compile_time(raw_output),
                   _parse_peak_memory(raw_output), benchmark_iterations)

\* float() of the text a host pattern captured: two decimals of seconds,
\* in millionths of a second
float(line) ==
  IF line.tag # "float"
  THEN Raise("ValueError: could not convert string to float")
  ELSE Ok(line.num * (Micro \div 100))

\* a faulty variant of first_match that takes the last occurrence
last_occurrence(matches) == matches[Len(matches)]

\* matches[0]
first_match(matches) == matches[1]

\* "float(matches[0]) if matches else None"
compile_time_latency(matches) ==
  IF matches = <<>> THEN Ok(None)
  ELSE IF float(first_match(matches)).ok
  THEN Ok(Some(float(first_match(matches)).val))
  ELSE float(first_match(matches))

\* a faulty variant of latencies_found: the assert is compiled out
assert_skipped(matches, benchmark_iterations) == TRUE

\* the condition of the assert on the number of latencies
latencies_found(matches, benchmark_iterations) ==
  Len(matches) = benchmark_iterations

floats(matches) == [i \in 1..Len(matches) |-> float(matches[i])]

\* "[float(match) * 1000 for match in matches]", in milliseconds
cpu_latencies(matches) ==
  [i \in 1..Len(matches) |-> (float(matches[i]).val * 1000) \div Micro]

\* lines 184-205, given what the two patterns matched
cpu_results_dict(compile_matches, matches, benchmark_iterations) ==
  IF ~compile_time_latency(compile_matches).ok
  THEN Failed(compile_time_latency(compile_matches).err, <<>>, None)
  ELSE IF ~latencies_found(matches, benchmark_iterations)
  THEN Failed("AssertionError: Expected to find latencies", <<>>, None)
  ELSE IF ~AllOk(floats(matches))
  THEN Failed(FirstError(floats(matches)).err, <<>>, None)
  ELSE IF ~stdev_if_any(cpu_latencies(matches)).ok
  THEN Failed(stdev_if_any(cpu_latencies(matches)).err, <<>>,
              Some(cpu_latencies(matches)))
  ELSE [ok |-> TRUE, err |-> "none", out |-> <<>>,
        lat |-> Some(cpu_latencies(matches)),
        val |-> [compile_time_s |-> compile_time_latency(compile_matches).val,
                 min_latency_ms |-> MinOrNone(cpu_latencies(matches)),
                 max_latency_ms |-> MaxOrNone(cpu_latencies(matches)),
                 mean_latency_ms |->
                   IF matches # <<>> THEN Some(mean(cpu_latencies(matches)))
                   ELSE None,
                 median_latency_ms |->
                   IF matches # <<>> THEN Some(median(cpu_latencies(matches)))
                   ELSE None,
                 stddev_latency_ms |->
                   IF matches # <<>>
                   THEN Some(stdev_if_any(cpu_latencies(matches)).val)
                   ELSE None,
                 benchmark_iterations |-> benchmark_iterations]]

_run_compiler_benchmark_cpu(raw_output, benchmark_iterations) ==
  cpu_results_dict(findall(raw_output, "compiled"),
                   findall(raw_output, "runner"), benchmark_iterations)

(***************************************************************************)
(* _run: the result record of one benchmark.  ran tells whether the tool   *)
(* was launched (subprocess.run is the first step of both device parsers). *)
(***************************************************************************)
\* utils.BenchmarkResult(definition=..., metrics={"compiler_level": metrics})
BenchmarkResult(i, metrics) ==
  [ok |-> metrics.ok, err |-> metrics.err, out |-> metrics.out,
   lat |-> metrics.lat, ran |-> TRUE,
   val |-> IF metrics.ok
           THEN [definition |-> i, metrics |-> [compiler_level |-> metrics.val]]
           ELSE <<>>]

Unsupported(ran) ==
  [ok |-> FALSE, val |-> <<>>, out |-> <<>>, lat |-> None, ran |-> ran,
   err |-> "ValueError: Unsupported accelerator"]

\* a faulty variant of _run that launches the host tool before it looks at the
\* accelerator
_run_launch_first(i, accelerator, raw_output, n) ==
  IF accelerator = "gpu"
  THEN BenchmarkResult(i, _run_compiler_benchmark_gpu(raw_output, n))
  ELSE IF accelerator = "cpu"
  THEN BenchmarkResult(i, _run_compiler_benchmark_cpu(raw_output, n))
  ELSE Unsupported(TRUE)

_run(i, accelerator, raw_output, n) ==
  IF accelerator = "gpu"
  THEN BenchmarkResult(i, _run_compiler_benchmark_gpu(raw_output, n))
  ELSE IF accelerator = "cpu"
  THEN BenchmarkResult(i, _run_compiler_benchmark_cpu(raw_output, n))
  ELSE Unsupported(FALSE)

\* utils.append_benchmark_result: the store is append-only
append_benchmark_result(output, result) == Append(output, result)

(***************************************************************************)
(* The inputs: log lines of the accelerator tool and of the host tool.     *)
(***************************************************************************)
BeforeMidnight == Timestamp(23, 59, 59900)
AfterMidnight == Timestamp(0, 0, 100)
LaterAfterMidnight == Timestamp(0, 0, 350)

GpuLines ==
  {Line("started", Some(t), 0, "") : t \in {BeforeMidnight, AfterMidnight}}
  \cup {Line("succeeded", Some(LaterAfterMidnight), 0, "")}
  \cup {Line("started", None, 0, "")}
  \cup {Line("peak", None, b, "bytes") : b \in {2000, 1500}}
  \cup {Line("compile", None, 250, "us"), Line("compile", None, 0, "")}

CpuLines ==
  {Line("compiled", None, c, "float") : c \in {123, 456}}
  \cup {Line("runner", None, r, "float") : r \in {10, 12}}
  \cup {Line("runner", None, 0, "text"), Line("compiled", None, 0, "text")}

Accelerators == {"gpu", "cpu", "tpu"}

\* What the tool may print when main launches it: logs over fewer lines,
\* one of each kind that main's outcome depends on.
GpuBatchLines ==
  {Line("started", Some(BeforeMidnight), 0, ""),
   Line("succeeded", Some(LaterAfterMidnight), 0, ""),
   Line("peak", None, 2000, "bytes"),
   Line("compile", None, 0, "")}

CpuBatchLines ==
  {Line("compiled", None, 123, "float"),
   Line("runner", None, 10, "float"),
   Line("runner", None, 0, "text")}

ToolOutputs(accelerator) ==
  CASE accelerator = "gpu" -> SeqsUpTo(GpuBatchLines, MaxBatchLogLen)
    [] accelerator = "cpu" -> SeqsUpTo(CpuBatchLines, MaxBatchLogLen)
    [] OTHER -> {<<>>}

\* The number of lines of a log that satisfy P, and the counts main's
\* history variable keeps.
Count(log, kind) == Len(findall(log, kind))

Untimed(log) ==
  Cardinality({i \in 1..Len(log) : /\ log[i].kind = "compile"
                                    /\ log[i].tag \notin DOMAIN TIME_UNITS})

Counts(log) ==
  [started |-> Count(log, "started"),
   succeeded |-> Count(log, "succeeded"),
   runner |-> Count(log, "runner"),
   peak |-> Count(log, "peak"),
   untimed_compile |-> Untimed(log)]

ElapsedLines ==
  {Line("started", Some(Timestamp(h, m, ms)), 0, "") :
     h \in {0, 12, 23}, m \in {0, 59}, ms \in {0, 100, 59900}}
  \cup {Line("started", None, 0, "")}

(***************************************************************************)
(* main.                                                                   *)
(***************************************************************************)
\* lines 313-329: the selection is empty, or the loop starts
MainStart ==
  /\ pc = "start"
  /\ IF benchmarks = <<>>
     THEN /\ pc' = "raised"
          /\ error' = "ValueError: No benchmark matches"
     ELSE /\ pc' = "loop"
          /\ error' = error
  /\ UNCHANGED <<benchmarks, iterations, idx, store, launched, stdout,
                 latencies, seen, result_text, results_dict, line1, line2,
                 elapsed>>

\* lines 331-343: one turn of the loop; hlo_dump_exists is the file system's
\* answer to hlo_dump.exists(), stdout_of_tool what the tool prints if launched
\* a faulty variant of Looped that records a failed run and goes on to the next
\* benchmark
LoopedPastFailure(result, stdout_of_tool) ==
  /\ launched' = IF result.ran THEN Append(launched, idx) ELSE launched
  /\ seen' = IF result.ran THEN Counts(stdout_of_tool) ELSE seen
  /\ stdout' = stdout \o result.out
  /\ latencies' = IF result.ran THEN result.lat ELSE latencies
  /\ store' = IF result.ok THEN append_benchmark_result(store, result.val)
              ELSE store
  /\ error' = IF result.ok THEN error ELSE result.err
  /\ idx' = idx + 1
  /\ UNCHANGED pc

\* the loop's turn once the dump exists: result is what _run returned or
\* raised
Looped(result, stdout_of_tool) ==
  /\ launched' = IF result.ran THEN Append(launched, idx) ELSE launched
  /\ seen' = IF result.ran THEN Counts(stdout_of_tool) ELSE seen
  /\ stdout' = stdout \o result.out
  /\ latencies' = IF result.ran THEN result.lat ELSE latencies
  /\ IF result.ok
     THEN /\ store' = append_benchmark_result(store, result.val)
          /\ idx' = idx + 1
          /\ UNCHANGED <<pc, error>>
     ELSE /\ pc' = "raised"
          /\ error' = result.err
          /\ UNCHANGED <<idx, store>>

MainLoop ==
  /\ pc = "loop"
  /\ idx <= Len(benchmarks)
  /\ \E hlo_dump_exists \in BOOLEAN,
        stdout_of_tool \in ToolOutputs(benchmarks[idx]) :
       IF ~hlo_dump_exists
       THEN /\ pc' = "raised"
            /\ error' = "ValueError: HLO dump not found"
            /\ UNCHANGED <<idx, store, launched, stdout, latencies, seen>>
       ELSE Looped(_run(idx, benchmarks[idx], stdout_of_tool, iterations),
                   stdout_of_tool)
  /\ UNCHANGED <<benchmarks, iterations, result_text, results_dict, line1,
                 line2, elapsed>>

\* the loop is exhausted and main returns
MainReturn ==
  /\ pc = "loop"
  /\ idx > Len(benchmarks)
  /\ pc' = "done"
  /\ UNCHANGED <<benchmarks, iterations, idx, store, launched, stdout, error,
                 latencies, seen, result_text, results_dict, line1, line2,
                 elapsed>>

(***************************************************************************)
(* A device parser called alone on a log.                                  *)
(***************************************************************************)
ParseGpu ==
  /\ results_dict = None
  /\ \E raw \in SeqsUpTo(GpuLines, MaxLogLen) :
       /\ result_text' = raw
       /\ results_dict' = Some([device |-> "gpu",
                          result |-> _run_compiler_benchmark_gpu(raw, iterations)])
  /\ UNCHANGED <<benchmarks, iterations, pc, idx, store, launched, stdout,
                 error, latencies, seen, line1, line2, elapsed>>

ParseCpu ==
  /\ results_dict = None
  /\ \E raw \in SeqsUpTo(CpuLines, MaxLogLen) :
       /\ result_text' = raw
       /\ results_dict' = Some([device |-> "cpu",
                          result |-> _run_compiler_benchmark_cpu(raw, iterations)])
  /\ UNCHANGED <<benchmarks, iterations, pc, idx, store, launched, stdout,
                 error, latencies, seen, line1, line2, elapsed>>

\* _parse_log_elapsed_time applied to the two lines
ElapsedTime ==
  /\ elapsed = None
  /\ elapsed' = Some(_parse_log_elapsed_time(line1, line2))
  /\ UNCHANGED <<benchmarks, iterations, pc, idx, store, launched, stdout,
                 error, latencies, seen, result_text, results_dict, line1,
                 line2>>

(***************************************************************************)
(* Specifications.                                                         *)
(***************************************************************************)
Idle ==
  /\ result_text = <<>>
  /\ results_dict = None
  /\ line1 = Line("started", None, 0, "")
  /\ line2 = Line("started", None, 0, "")
  /\ elapsed = None

MainInit ==
  /\ pc = "start"
  /\ idx = 1
  /\ store = <<>>
  /\ launched = <<>>
  /\ stdout = <<>>
  /\ error = "none"
  /\ latencies = None
  /\ seen = Counts(<<>>)

\* main called on a selection of benchmarks
Init ==
  /\ benchmarks \in SeqsUpTo(Accelerators, MaxBatch)
  /\ iterations \in 0..MaxIterations
  /\ MainInit
  /\ Idle

Next == MainStart \/ MainLoop \/ MainReturn

Spec == Init /\ [][Next]_vars

\* a device parser called on a log
InitParse ==
  /\ benchmarks = <<>>
  /\ iterations \in 0..MaxIterations
  /\ MainInit
  /\ Idle

NextParse == ParseGpu \/ ParseCpu

SpecParse == InitParse /\ [][NextParse]_vars

\* _parse_log_elapsed_time called on two log lines
InitElapsed ==
  /\ benchmarks = <<>>
  /\ iterations = 0
  /\ MainInit
  /\ result_text = <<>>
  /\ results_dict = None
  /\ line1 \in ElapsedLines
  /\ line2 \in ElapsedLines
  /\ elapsed = None

NextElapsed == ElapsedTime

SpecElapsed == InitElapsed /\ [][NextElapsed]_vars

(***************************************************************************)
(* What the claims speak of, stated on the log itself.                     *)
(***************************************************************************)
NumberOf(log, kind) == Cardinality({j \in 1..Len(log) : log[j].kind = kind})

\* the i-th line of a kind, in order of appearance
NthOfKind(log, kind, i) ==
  log[CHOOSE j \in 1..Len(log) :
        /\ log[j].kind = kind
        /\ Cardinality({k \in 1..j : log[k].kind = kind}) = i]

MsSinceMidnight(line) ==
  ((line.ts[1].h * 60 + line.ts[1].m) * 60) * 1000 + line.ts[1].ms

AllTimestamped(log) == \A j \in 1..Len(log) :
  log[j].kind \in {"started", "succeeded"} => log[j].ts # None

LatencyFields(m) ==
  <<m.min_latency_ms, m.max_latency_ms, m.mean_latency_ms,
    m.median_latency_ms, m.stddev_latency_ms>>

AllAbsent(m) == \A i \in 1..5 : LatencyFields(m)[i] = None

Called(device) == results_dict # None /\ results_dict[1].device = device
R == results_dict[1].result

(***************************************************************************)
(* C1: for two timestamps start and end, each milliseconds since midnight, *)
(* _parse_log_elapsed_time returns end - start when end >= start and       *)
(* end - start plus one day of milliseconds when end < start; the result   *)
(* is never negative.                                                      *)
(***************************************************************************)
C1_ElapsedRollsOverADay ==
  (elapsed # None /\ line1.ts # None /\ line2.ts # None) =>
    /\ elapsed[1].ok
    /\ elapsed[1].val >= 0
    /\ elapsed[1].val =
         IF MsSinceMidnight(line2) >= MsSinceMidnight(line1)
         THEN MsSinceMidnight(line2) - MsSinceMidnight(line1)
         ELSE MsSinceMidnight(line2) - MsSinceMidnight(line1) + DayMs

(***************************************************************************)
(* C2: when the expected iteration count is 1 and the log holds exactly    *)
(* one latency measurement x (and the rest of the log parses), either      *)
(* device parser produces the record without error, with stddev absent and *)
(* min = max = mean = median = x.                                          *)
(***************************************************************************)
OneMeasurement ==
  \/ /\ Called("gpu")
     /\ NumberOf(result_text, "started") = 1
     /\ NumberOf(result_text, "succeeded") = 1
     /\ AllTimestamped(result_text)
     /\ NumberOf(result_text, "peak") >= 1
     /\ \A j \in 1..Len(result_text) :
          result_text[j].kind = "compile" => result_text[j].tag \in DOMAIN TIME_UNITS
  \/ /\ Called("cpu")
     /\ NumberOf(result_text, "runner") = 1
     /\ \A j \in 1..Len(result_text) : result_text[j].tag = "float"

C2_SingleSampleRecord ==
  (iterations = 1 /\ OneMeasurement) =>
    /\ R.ok
    /\ R.val.stddev_latency_ms = None
    /\ R.val.min_latency_ms = R.val.max_latency_ms
    /\ R.val.min_latency_ms = R.val.mean_latency_ms
    /\ R.val.min_latency_ms = R.val.median_latency_ms
    /\ R.val.min_latency_ms = Some(R.lat[1][1])

(***************************************************************************)
(* C3: a record that either device parser builds from an empty latency     *)
(* list has min, max, mean, median and stddev all absent (None, never a    *)
(* number such as zero); one of them is a number only when the log held a  *)
(* latency measurement.                                                    *)
(***************************************************************************)
HoldsMeasurement ==
  IF results_dict[1].device = "gpu"
  THEN NumberOf(result_text, "started") >= 1
       /\ NumberOf(result_text, "succeeded") >= 1
  ELSE NumberOf(result_text, "runner") >= 1

C3_NoSamplesNoNumbers ==
  (results_dict # None /\ R.ok) =>
    /\ R.lat = Some(<<>>) => AllAbsent(R.val)
    /\ ~AllAbsent(R.val) => (R.lat[1] # <<>> /\ HoldsMeasurement)

C3_Witness ==
  /\ Called("gpu")
  /\ R.ok
  /\ R.lat = Some(<<>>)
  /\ iterations = 2
  /\ NumberOf(result_text, "started") = 1
  /\ AllAbsent(R.val)

(***************************************************************************)
(* C4: in the accelerator parser, when the number of started markers       *)
(* differs from the number of succeeded markers, or from the expected      *)
(* iteration count, _parse_latencies prints the mismatch and returns the   *)
(* empty list, never the pairs that did match.                             *)
(***************************************************************************)
C4_MismatchGivesNoSamples ==
  Called("gpu") =>
    /\ NumberOf(result_text, "started") # NumberOf(result_text, "succeeded")
         => (R.lat = Some(<<>>) /\ R.out = <<UnequalMsg>>)
    /\ (/\ NumberOf(result_text, "started") = NumberOf(result_text, "succeeded")
        /\ NumberOf(result_text, "started") # iterations)
         => (R.lat = Some(<<>>) /\ R.out = <<IterationsMsg>>)

C4_Witness ==
  /\ Called("gpu")
  /\ iterations = 2
  /\ NumberOf(result_text, "started") = 2
  /\ NumberOf(result_text, "succeeded") = 1
  /\ AllTimestamped(result_text)
  /\ R.lat = Some(<<>>)

(***************************************************************************)
(* C5: in the accelerator parser, for a well-formed log with N started and *)
(* N succeeded markers, N the expected iteration count, _parse_latencies   *)
(* returns N samples, the i-th being the milliseconds elapsed from the     *)
(* i-th started marker to the i-th succeeded marker.                       *)
(***************************************************************************)
ElapsedMs(start, end) == (end - start) % DayMs

C5_SamplesAreElapsedTimes ==
  (/\ Called("gpu")
   /\ NumberOf(result_text, "started") = iterations
   /\ NumberOf(result_text, "succeeded") = iterations
   /\ AllTimestamped(result_text)) =>
    /\ R.lat # None
    /\ Len(R.lat[1]) = iterations
    /\ \A i \in 1..iterations :
         R.lat[1][i] =
           ElapsedMs(MsSinceMidnight(NthOfKind(result_text, "started", i)),
                     MsSinceMidnight(NthOfKind(result_text, "succeeded", i)))

LastRun == launched[Len(launched)]

Mismatch ==
  IF benchmarks[LastRun] = "gpu"
  THEN seen.started # seen.succeeded \/ seen.started # iterations
  ELSE seen.runner # iterations

\* the accelerator log's other metrics parse: a peak-memory announcement,
\* and a duration on every compile-time line
RestOfLogParses ==
  benchmarks[LastRun] = "gpu" => (seen.peak >= 1 /\ seen.untimed_compile = 0)

Supported(j) == benchmarks[j] \in {"gpu", "cpu"}

RecordOf(j) == store[j].metrics.compiler_level

(***************************************************************************)
(* C6 as stated: a failure of one benchmark's run is fatal to that         *)
(* benchmark only, so main never ends on such a failure with benchmarks of *)
(* the batch left unrun.                                                   *)
(***************************************************************************)
RunFailed ==
  error \notin {"none", "ValueError: No benchmark matches",
                "ValueError: HLO dump not found"}

C6_FailureIsLocal ==
  (pc = "raised" /\ RunFailed) => idx = Len(benchmarks)

(***************************************************************************)
(* C6 as amended: an exception raised by one benchmark's run ends main: no *)
(* later benchmark of the batch is launched and nothing more is appended,  *)
(* while the records appended for the earlier benchmarks stay in the       *)
(* store.                                                                  *)
(***************************************************************************)
C6_FailureEndsBatch ==
  error # "none" =>
    /\ pc = "raised"
    /\ Len(store) = idx - 1
    /\ \A k \in 1..Len(store) : store[k].definition = k
    /\ \A k \in 1..Len(launched) : launched[k] <= idx

C6_Witness ==
  /\ pc = "raised"
  /\ error = "AssertionError: Unable to find peak memory"
  /\ idx = 1
  /\ launched = <<1>>
  /\ Len(benchmarks) = 2

(***************************************************************************)
(* C7 as stated: for either device, when the number of latency samples in  *)
(* the log is not the expected iteration count (nothing else being wrong   *)
(* with the log), the run is not retried and a result record with the      *)
(* latency fields absent is appended.                                      *)
(***************************************************************************)
C7_MismatchStillReported ==
  (launched # <<>> /\ Mismatch /\ RestOfLogParses) =>
    /\ Len(store) >= LastRun
    /\ store[LastRun].definition = LastRun
    /\ AllAbsent(RecordOf(LastRun))

(***************************************************************************)
(* C7 as amended: on such a mismatch the run is not retried; for the       *)
(* accelerator variant, if the log also holds a peak-memory announcement   *)
(* and its compile-time lines parse, the mismatch is printed and a record  *)
(* with the latency fields absent is appended, and otherwise the run       *)
(* raises; for the host variant the run raises, no record is appended for  *)
(* it and main ends.                                                       *)
(***************************************************************************)
C7_MismatchByDevice ==
  (launched # <<>> /\ Mismatch) =>
    /\ \A j, k \in 1..Len(launched) : j < k => launched[j] < launched[k]
    /\ IF benchmarks[LastRun] = "gpu" /\ RestOfLogParses
       THEN /\ Len(store) >= LastRun
            /\ store[LastRun].definition = LastRun
            /\ AllAbsent(RecordOf(LastRun))
            /\ stdout # <<>>
       ELSE /\ pc = "raised"
            /\ error # "none"
            /\ idx = LastRun
            /\ Len(store) = LastRun - 1

C7_Witness ==
  /\ launched = <<1, 2>>
  /\ benchmarks[2] = "gpu"
  /\ iterations = 1
  /\ seen.started = 1
  /\ seen.succeeded = 0
  /\ Len(store) = 2
  /\ AllAbsent(RecordOf(2))
  /\ pc = "done"

(***************************************************************************)
(* C8: for a benchmark whose accelerator is neither gpu nor cpu, _run      *)
(* raises the unsupported-accelerator error; the tool is never launched    *)
(* for that benchmark and no result record is appended for it.             *)
(***************************************************************************)
C8_UnsupportedFailsBeforeLaunch ==
  /\ \A j \in 1..Len(benchmarks) : ~Supported(j) =>
       /\ \A k \in 1..Len(launched) : launched[k] # j
       /\ \A k \in 1..Len(store) : store[k].definition # j
       /\ idx <= j
       /\ (pc = "raised" /\ idx = j) =>
            error \in {"ValueError: Unsupported accelerator",
                       "ValueError: HLO dump not found"}
  /\ error = "ValueError: Unsupported accelerator" =>
       (pc = "raised" /\ ~Supported(idx))

C8_Witness ==
  /\ error = "ValueError: Unsupported accelerator"
  /\ idx = 2
  /\ launched = <<1>>
  /\ Len(store) = 1

====
